---------------------------- MODULE Spec2Model ----------------------------
(***************************************************************************)
(* ZeBadge serial agent (src/zehardware/code.py): the command decoder and  *)
(* dispatcher, the image codec and the cooperative scheduler loop.         *)
(*                                                                         *)
(* Text is a sequence of one-character strings, bytes are sequences of     *)
(* numbers in 0..255.  Chars("abc") turns a literal into such a sequence.  *)
(***************************************************************************)
EXTENDS Integers, Sequences, FiniteSets, TLC

VARIABLES
  pc,               \* position of the main loop inside the current tick
  iteration,        \* the tick counter
  should_refresh,   \* the refresh-due flag
  should_blink_led, \* the blink-enabled flag
  led,              \* led.value
  root,             \* display.root_group
  files,            \* the file system: file name -> bytes
  serial,           \* complete lines buffered on the serial link, oldest first
  host,             \* the lines the host may send in this run
  horizon,          \* the last tick of this run
  arrived,          \* history: number of lines delivered so far
  refreshed,        \* history: the ticks in which display.refresh() was called
  handled,          \* history: the handler invocations, oldest first
  last,             \* history: what the latest command step of this tick did
  probe_in,         \* harness of the pure functions: the argument
  probe_out         \* harness of the pure functions: the result

vars == <<pc, iteration, should_refresh, should_blink_led, led, root, files,
          serial, host, horizon, arrived, refreshed, handled, last, probe_in, probe_out>>

-----------------------------------------------------------------------------
(* Text and bytes                                                          *)

Chars(s) == [i \in 1..Len(s) |-> SubSeq(s, i, i)]

\* Python's None; no text equals it.
None == <<"<None>">>

\* The printable ASCII characters, code 32 upwards.
\* (the grave accent, code 96, is written as a name)
PrintableChars ==
  Chars(" !\"#$%&'()*+,-./0123456789:;<=>?@ABCDEFGHIJKLMNOPQRSTUVWXYZ[\\]^_")
  \o <<"grave">> \o Chars("abcdefghijklmnopqrstuvwxyz{|}~")

\* A character that is not printable ASCII is named by its code point.
CodePoint(n) == "U+" \o ToString(n)

Chr(n) ==
  IF n = 9 THEN "\t"
  ELSE IF n = 10 THEN "\n"
  ELSE IF n = 12 THEN "\f"
  ELSE IF n = 13 THEN "\r"
  ELSE IF n >= 32 /\ n <= 126 /\ n # 96 THEN PrintableChars[n - 31]
  ELSE CodePoint(n)

Ord(c) ==
  IF c = "\t" THEN 9
  ELSE IF c = "\n" THEN 10
  ELSE IF c = "\f" THEN 12
  ELSE IF c = "\r" THEN 13
  ELSE IF \E i \in 1..Len(PrintableChars) : i # 65 /\ PrintableChars[i] = c
       THEN 31 + (CHOOSE i \in 1..Len(PrintableChars) : PrintableChars[i] = c)
       ELSE CHOOSE n \in 0..1114111 : c = CodePoint(n)

\* The UTF-8 bytes of one code point
utf8_bytes(n) ==
  IF n < 128 THEN <<n>>
  ELSE IF n < 2048 THEN <<192 + (n \div 64), 128 + (n % 64)>>
  ELSE IF n < 65536
       THEN <<224 + (n \div 4096), 128 + ((n \div 64) % 64), 128 + (n % 64)>>
       ELSE <<240 + (n \div 262144), 128 + ((n \div 4096) % 64),
              128 + ((n \div 64) % 64), 128 + (n % 64)>>

Indices(s) == [i \in 1..Len(s) |-> i]

Min(S) == CHOOSE x \in S : \A y \in S : x <= y
Max(S) == CHOOSE x \in S : \A y \in S : x >= y

\* The concatenation of a sequence of sequences
RECURSIVE flatten(_)
flatten(ss) ==
  IF ss = <<>> THEN <<>>
  ELSE IF Len(ss) = 1 THEN ss[1]
  ELSE LET h == Len(ss) \div 2
       IN flatten(SubSeq(ss, 1, h)) \o flatten(SubSeq(ss, h + 1, Len(ss)))

\* The sum of a sequence of numbers
RECURSIVE sum_of(_)
sum_of(ns) ==
  IF ns = <<>> THEN 0
  ELSE IF Len(ns) = 1 THEN ns[1]
  ELSE LET h == Len(ns) \div 2
       IN sum_of(SubSeq(ns, 1, h)) + sum_of(SubSeq(ns, h + 1, Len(ns)))

\* str.encode("utf-8")
utf8_encode(s) == flatten([i \in 1..Len(s) |-> utf8_bytes(Ord(s[i]))])

\* str(bytes, "utf-8"): a lead byte announces 0 to 3 continuation bytes
\* (0x80..0xBF); a continuation byte no lead byte announces, a byte from 0xF8
\* on, or a sequence cut short raises.
utf8_decode(bytes) ==
  LET n == Len(bytes)
      is_cont(i) == bytes[i] >= 128 /\ bytes[i] < 192
      need(i) == IF bytes[i] < 128 THEN 0 ELSE IF bytes[i] < 224 THEN 1
                 ELSE IF bytes[i] < 240 THEN 2 ELSE 3
      lead_ok(i) == /\ bytes[i] < 248
                    /\ i + need(i) <= n
                    /\ \A k \in 1..need(i) : is_cont(i + k)
      cont_ok(j) == \E d \in 1..3 :
                       /\ j - d >= 1
                       /\ ~is_cont(j - d)
                       /\ need(j - d) >= d
                       /\ \A k \in 1..(d - 1) : is_cont(j - k)
      cont(i, k) == bytes[i + k] % 64
      code(i) == IF need(i) = 0 THEN bytes[i]
                 ELSE IF need(i) = 1 THEN (bytes[i] % 32) * 64 + cont(i, 1)
                 ELSE IF need(i) = 2
                      THEN ((bytes[i] % 16) * 64 + cont(i, 1)) * 64 + cont(i, 2)
                      ELSE (((bytes[i] % 8) * 64 + cont(i, 1)) * 64 + cont(i, 2)) * 64
                           + cont(i, 3)
      is_lead(i) == ~is_cont(i)
      leads == SelectSeq(Indices(bytes), is_lead)
  IN IF \A i \in 1..n : IF is_cont(i) THEN cont_ok(i) ELSE lead_ok(i)
     THEN [ok |-> TRUE, text |-> [k \in 1..Len(leads) |-> Chr(code(leads[k]))]]
     ELSE [ok |-> FALSE, text |-> <<>>]

\* space, \t, \n, \r, \f and \v
IsSpace(c) == c \in {" ", "\t", "\n", "\r", "\f", CodePoint(11)}

lstrip(s) ==
  IF \A i \in 1..Len(s) : IsSpace(s[i]) THEN <<>>
  ELSE SubSeq(s, Min({i \in 1..Len(s) : ~IsSpace(s[i])}), Len(s))

rstrip(s) ==
  IF \A i \in 1..Len(s) : IsSpace(s[i]) THEN <<>>
  ELSE SubSeq(s, 1, Max({i \in 1..Len(s) : ~IsSpace(s[i])}))

\* str.strip()
strip(s) == rstrip(lstrip(s))

\* str.startswith(prefix)
startswith(s, prefix) ==
  Len(s) >= Len(prefix) /\ SubSeq(s, 1, Len(prefix)) = prefix

\* str.split(sep) for a one-character separator: the pieces between the
\* separators, one more than there are separators.
split(s, sep) ==
  LET is_sep(i) == s[i] = sep
      seps == SelectSeq(Indices(s), is_sep)
      m == Len(seps)
  IN [k \in 1..(m + 1) |->
        SubSeq(s, IF k = 1 THEN 1 ELSE seps[k - 1] + 1,
                  IF k = m + 1 THEN Len(s) ELSE seps[k] - 1)]

\* str.find(old) + 1: the place of the first occurrence, 0 when there is none
find(s, old) ==
  LET occ == {i \in 1..(Len(s) - Len(old) + 1) : SubSeq(s, i, i + Len(old) - 1) = old}
  IN IF occ = {} THEN 0 ELSE Min(occ)

\* str.replace(old, ""): every occurrence of old removed, left to right.
RECURSIVE replace_with_empty(_, _)
replace_with_empty(s, old) ==
  LET i == find(s, old)
  IN IF i = 0 THEN s
     ELSE SubSeq(s, 1, i - 1)
          \o replace_with_empty(SubSeq(s, i + Len(old), Len(s)), old)

\* re.sub(r'\s', " ", buffer)
sub_whitespace(s) == [i \in 1..Len(s) |-> IF IsSpace(s[i]) THEN " " ELSE s[i]]

\* The number of conversions of a format string that take an argument, or -1
\* when the format is malformed ("%%" is a literal percent sign).
RECURSIVE format_specs(_)
format_specs(fmt) ==
  LET i == find(fmt, <<"%">>)
  IN IF i = 0 THEN 0
     ELSE IF i = Len(fmt) THEN -1
     ELSE IF fmt[i + 1] = "%" THEN format_specs(SubSeq(fmt, i + 2, Len(fmt)))
     ELSE IF fmt[i + 1] \in {"s", "r"}
          THEN LET n == format_specs(SubSeq(fmt, i + 2, Len(fmt)))
               IN IF n < 0 THEN -1 ELSE n + 1
          ELSE -1

\* fmt % value with one text value: raises unless fmt holds exactly one
\* conversion.
mod_format_raises(fmt) == format_specs(fmt) # 1

-----------------------------------------------------------------------------
(* Configuration                                                           *)

LOOP_CYCLE_TENTHS == 3
KEEP_ALIVE        == 5
REFRESH_RATE      == 3
DEBUG             == TRUE
MAX_OUTPUT_LEN    == 10

\* int(REFRESH_RATE / LOOP_CYCLE) and int(KEEP_ALIVE / LOOP_CYCLE)
refresh_cycle    == (REFRESH_RATE * 10) \div LOOP_CYCLE_TENTHS
keep_alive_cycle == (KEEP_ALIVE * 10) \div LOOP_CYCLE_TENTHS

COMMANDS == {
  Chars("reload"), Chars("exit"),
  Chars("blink"), Chars("terminal"), Chars("preview"), Chars("refresh"),
  Chars("store-a"), Chars("store-b"), Chars("store-c"),
  Chars("store-up"), Chars("store-down"),
  Chars("show-a"), Chars("show-b"), Chars("show-c"),
  Chars("show-up"), Chars("show-down") }

COMMAND_NONE == <<None, None, None>>

-----------------------------------------------------------------------------
(* trunc                                                                   *)

\* long[:n] and long[n:] for n that may be negative
slice_to(s, n) ==
  LET k == IF n < 0 THEN Len(s) + n ELSE n
      e == IF k < 0 THEN 0 ELSE IF k > Len(s) THEN Len(s) ELSE k
  IN SubSeq(s, 1, e)

slice_from(s, n) ==
  LET k == IF n < 0 THEN Len(s) + n ELSE n
      b == IF k < 0 THEN 0 ELSE IF k > Len(s) THEN Len(s) ELSE k
  IN SubSeq(s, b + 1, Len(s))

trunc_symmetric(long) ==
  IF Len(long) <= MAX_OUTPUT_LEN THEN long
  ELSE LET trunc_replacement == Chars("...")
           left_pad  == Len(trunc_replacement)
           right_pad == -Len(trunc_replacement)
       IN slice_to(long, left_pad) \o Chars("...") \o slice_from(long, right_pad)

trunc(long) ==
  IF Len(long) <= MAX_OUTPUT_LEN THEN long
  ELSE LET trunc_replacement == Chars("...")
           left_pad  == Len(trunc_replacement) + 1
           right_pad == -Len(trunc_replacement)
       IN slice_to(long, left_pad) \o Chars("...") \o slice_from(long, right_pad)

-----------------------------------------------------------------------------
(* base64 (circuitpython_base64 over binascii)                             *)

\* The value of a base64 digit, -1 for any other byte.
sextet(b) ==
  IF b >= 65 /\ b <= 90 THEN b - 65
  ELSE IF b >= 97 /\ b <= 122 THEN b - 97 + 26
  ELSE IF b >= 48 /\ b <= 57 THEN b - 48 + 52
  ELSE IF b = 43 THEN 62
  ELSE IF b = 47 THEN 63
  ELSE -1

\* binascii.a2b_base64.  The scan keeps a bit count nbits (6 more with each
\* digit, 8 fewer with each byte put out) and a flag hadpad ("=" seen since
\* the last digit).  Bytes that are no digit are skipped; the scan ends at an
\* "=" met with nbits = 2, or with nbits = 4 and hadpad set; bits left over at
\* the end are an error ("incorrect padding").

\* Where the scan ends: the place of that "=", or one past the last byte.
a2b_stop(bytes) ==
  LET n == Len(bytes)
      is_digit(i) == sextet(bytes[i]) # -1
      nbits(i) == (6 * Cardinality({j \in 1..(i - 1) : is_digit(j)})) % 8
      hadpad(i) == \E j \in 1..(i - 1) :
                      bytes[j] = 61 /\ \A k \in (j + 1)..(i - 1) : ~is_digit(k)
      ends(i) == bytes[i] = 61 /\ (nbits(i) = 2 \/ (nbits(i) = 4 /\ hadpad(i)))
  IN IF \E i \in 1..n : ends(i) THEN Min({i \in 1..n : ends(i)}) ELSE n + 1

\* The values of the digits scanned before the scan ends
a2b_digits(bytes, stop) ==
  LET scanned(i) == i < stop /\ sextet(bytes[i]) # -1
  IN SelectSeq([i \in 1..Len(bytes) |-> IF scanned(i) THEN sextet(bytes[i]) ELSE -1],
               LAMBDA v : v # -1)

\* The bytes the digits hold, eight bits at a time
a2b_pack(stopped, digits) ==
  LET byte(j) == LET q == (8 * (j - 1)) \div 6
                     r == (8 * (j - 1)) % 6
                 IN ((digits[q + 1] * 64 + digits[q + 2]) \div 2^(4 - r)) % 256
  IN [ok |-> stopped \/ (6 * Len(digits)) % 8 = 0,
      bytes |-> [j \in 1..((6 * Len(digits)) \div 8) |-> byte(j)]]

a2b_scan(bytes, stop) == a2b_pack(stop <= Len(bytes), a2b_digits(bytes, stop))

a2b_base64(bytes) == a2b_scan(bytes, a2b_stop(bytes))

\* base64.decodebytes(bytes) and base64.b64decode(text)
decodebytes(bytes) == a2b_base64(bytes)
b64decode(text)    == a2b_base64(utf8_encode(text))

\* The base64 digit of a value in 0..63, as a byte.
digit(v) ==
  IF v < 26 THEN 65 + v
  ELSE IF v < 52 THEN 97 + (v - 26)
  ELSE IF v < 62 THEN 48 + (v - 52)
  ELSE IF v = 62 THEN 43 ELSE 47

\* base64.b64encode(bytes), as bytes: four digits for every three bytes,
\* padded with "=".
b64encode(bytes) ==
  LET n == Len(bytes)
      quad(g) ==
        LET b1 == bytes[3 * g - 2]
            b2 == IF 3 * g - 1 <= n THEN bytes[3 * g - 1] ELSE 0
            b3 == IF 3 * g <= n THEN bytes[3 * g] ELSE 0
        IN << digit(b1 \div 4),
              digit((b1 % 4) * 16 + (b2 \div 16)),
              IF 3 * g - 1 <= n THEN digit((b2 % 16) * 4 + (b3 \div 64)) ELSE 61,
              IF 3 * g <= n THEN digit(b3 % 64) ELSE 61 >>
  IN flatten([g \in 1..((n + 2) \div 3) |-> quad(g)])

-----------------------------------------------------------------------------
(* zlib.decompress, for streams of stored (uncompressed) DEFLATE blocks    *)

adler32(data) ==
  LET n == Len(data)
      a == (1 + sum_of(data)) % 65521
      b == (n + sum_of([i \in 1..n |-> (n - i + 1) * data[i]])) % 65521
  IN b * 65536 + a

\* The blocks from position pos on.  A block compressed with Huffman codes
\* (BTYPE 1 or 2) has no value here: no input of this model holds one.
RECURSIVE inflate(_, _, _)
inflate(bytes, pos, out) ==
  IF pos > Len(bytes) THEN [ok |-> FALSE, out |-> out, pos |-> pos]
  ELSE LET bfinal == bytes[pos] % 2
           btype  == (bytes[pos] \div 2) % 4
       IN IF btype = 3 THEN [ok |-> FALSE, out |-> out, pos |-> pos]
          ELSE IF btype # 0 THEN CHOOSE huffman \in {} : TRUE
          ELSE IF pos + 4 > Len(bytes) THEN [ok |-> FALSE, out |-> out, pos |-> pos]
          ELSE LET len  == bytes[pos + 1] + 256 * bytes[pos + 2]
                   nlen == bytes[pos + 3] + 256 * bytes[pos + 4]
               IN IF len + nlen # 65535 \/ pos + 4 + len > Len(bytes)
                  THEN [ok |-> FALSE, out |-> out, pos |-> pos]
                  ELSE LET data == out \o SubSeq(bytes, pos + 5, pos + 4 + len)
                       IN IF bfinal = 1
                          THEN [ok |-> TRUE, out |-> data, pos |-> pos + 5 + len]
                          ELSE inflate(bytes, pos + 5 + len, data)

\* The Adler-32 of the data, stored after the last block, most significant
\* byte first
zlib_trailer(bytes, r) ==
  IF ~r.ok \/ r.pos + 3 > Len(bytes) THEN [ok |-> FALSE, bytes |-> <<>>]
  ELSE IF ((bytes[r.pos] * 256 + bytes[r.pos + 1]) * 256 + bytes[r.pos + 2]) * 256
          + bytes[r.pos + 3] = adler32(r.out)
       THEN [ok |-> TRUE, bytes |-> r.out]
       ELSE [ok |-> FALSE, bytes |-> <<>>]

zlib_decompress(bytes) ==
  IF Len(bytes) < 2 THEN [ok |-> FALSE, bytes |-> <<>>]
  ELSE IF \/ (bytes[1] * 256 + bytes[2]) % 31 # 0
          \/ bytes[1] % 16 # 8
          \/ bytes[1] \div 16 > 7
          \/ (bytes[2] \div 32) % 2 # 0
       THEN [ok |-> FALSE, bytes |-> <<>>]
       ELSE zlib_trailer(bytes, inflate(bytes, 3, <<>>))

-----------------------------------------------------------------------------
(* The display and the image codec                                         *)

DisplayWidthBytes == 2
DisplayHeight     == 2

display_width  == 8 * DisplayWidthBytes
display_height == DisplayHeight

Pixels == (0..(display_width - 1)) \X (0..(display_height - 1))

NoBitmap == [p \in {} |-> 0]

\* displayio.CIRCUITPYTHON_TERMINAL, and a Group holding one TileGrid
TERMINAL == [kind |-> "terminal", bitmap |-> NoBitmap, palette |-> <<>>]
Group(bitmap, palette) == [kind |-> "group", bitmap |-> bitmap, palette |-> palette]

byte_index_of(x, y) == (y * (display_width \div 8)) + (x \div 8)
bit_index_lsb_first(x) == x % 8

bit_index_of(x) == 7 - (x % 8)

byte_at_zero_fill(binarized_bytes, byte_index) ==
  IF byte_index >= Len(binarized_bytes)
  THEN [ok |-> TRUE, value |-> 0]
  ELSE [ok |-> TRUE, value |-> binarized_bytes[byte_index + 1]]

\* binarized_bytes[byte_index]: an index past the end raises IndexError.
byte_at(binarized_bytes, byte_index) ==
  IF byte_index >= Len(binarized_bytes)
  THEN [ok |-> FALSE, value |-> 0]
  ELSE [ok |-> TRUE, value |-> binarized_bytes[byte_index + 1]]

NoImage == [ok |-> FALSE, bitmap |-> NoBitmap, palette |-> <<>>]

\* The loops over y and x: every pixel reads its byte.
unpack(binarized_bytes) ==
  IF \E p \in Pixels : ~byte_at(binarized_bytes, byte_index_of(p[1], p[2])).ok
  THEN NoImage
  ELSE [ok |-> TRUE,
        bitmap |-> [p \in Pixels |->
           (byte_at(binarized_bytes, byte_index_of(p[1], p[2])).value
              \div 2^bit_index_of(p[1])) % 2],
        palette |-> <<0, 16777215>>]

unpack_inflated(inflated) ==
  IF inflated.ok THEN unpack(inflated.bytes) ELSE NoImage

decompress(compressed) ==
  IF compressed.ok THEN zlib_decompress(compressed.bytes)
  ELSE [ok |-> FALSE, bytes |-> <<>>]

\* decode_payload: ok is FALSE when b64decode, zlib.decompress or an index
\* into binarized_bytes raises.
decode_payload(payload) == unpack_inflated(decompress(b64decode(payload)))

-----------------------------------------------------------------------------
(* The command decoder                                                     *)

Return(value) == [raised |-> FALSE, value |-> value]
Raise         == [raised |-> TRUE, value |-> COMMAND_NONE]

\* The line read_command returns for the buffered lines: all of them, joined.
RECURSIVE readlines(_)
readlines(lines) ==
  IF lines = <<>> THEN <<>> ELSE Head(lines).text \o readlines(Tail(lines))

\* Only the newest buffered line is read; the older ones stay buffered.
read_command_newest_only(connected, lines) ==
  IF ~connected \/ lines = <<>>
  THEN [line |-> None, read |-> <<>>, left |-> lines]
  ELSE LET cleaned == strip(sub_whitespace(lines[Len(lines)].text))
       IN [line |-> IF Len(cleaned) > 0 THEN cleaned ELSE None,
           read |-> <<lines[Len(lines)]>>,
           left |-> SubSeq(lines, 1, Len(lines) - 1)]

\* line is what read_command returns; read are the buffered lines it took
\* from the link and left those it did not.
read_command(connected, lines) ==
  IF ~connected THEN [line |-> None, read |-> <<>>, left |-> lines]
  ELSE LET buffer  == readlines(lines)
           cleaned == strip(sub_whitespace(buffer))
       IN [line |-> IF Len(cleaned) > 0 THEN cleaned ELSE None,
           read |-> lines, left |-> <<>>]

\* The try block of the transport form: None when anything in it raises.
three_parts(parts) == IF Len(parts) = 3 THEN parts ELSE None

split_plain(plain_string) ==
  IF plain_string.ok THEN three_parts(split(plain_string.text, ":")) ELSE None

decode_plain(bytes_plain) ==
  IF bytes_plain.ok THEN split_plain(utf8_decode(bytes_plain.bytes)) ELSE None

transport_parts_stripped(base64_string) ==
  LET parts == decode_plain(decodebytes(utf8_encode(base64_string)))
  IN IF parts = None THEN None ELSE [k \in 1..3 |-> strip(parts[k])]

transport_parts(base64_string) ==
  decode_plain(decodebytes(utf8_encode(base64_string)))

\* The except block of the transport form
parse_transport(base64_string, parts) ==
  IF parts # None THEN Return(parts)
  ELSE IF mod_format_raises(Chars("Failed to decode '") \o base64_string
                            \o Chars("'.\n%s"))
       THEN Raise
       ELSE Return(COMMAND_NONE)

debug_parts(parts) ==
  IF Len(parts) # 3 THEN Return(COMMAND_NONE)
  ELSE Return(<<strip(parts[1]), strip(parts[2]), strip(parts[3])>>)

parse_command(base64_string) ==
  IF base64_string = None THEN Return(COMMAND_NONE)
  ELSE IF DEBUG /\ startswith(base64_string, Chars("debug:"))
  THEN debug_parts(split(replace_with_empty(base64_string, Chars("debug:")), ":"))
  ELSE parse_transport(base64_string, transport_parts(base64_string))

-----------------------------------------------------------------------------
(* The handlers.  st holds the globals a handler can change:               *)
(* [should_refresh, should_blink_led, root, files].                        *)

\* What a handler leaves behind: outcome is "done", "raised" (an exception
\* left the handler), "reload" or "exit"; error names the failure it met.
Out(st, outcome, error) == [st |-> st, outcome |-> outcome, error |-> error]

\* log(fmt % format_e(e)) in an except block: the handler ends there, or the
\* formatting raises in turn.
Logged(st, fmt, error) ==
  IF mod_format_raises(fmt) THEN Out(st, "raised", error) ELSE Out(st, "done", error)

handle_refresh_command(st) ==
  Out([st EXCEPT !.should_refresh = TRUE], "done", "none")

handle_terminal_command_quiet(st) ==
  Out([st EXCEPT !.root = TERMINAL], "done", "none")

handle_terminal_command(st) ==
  Out([st EXCEPT !.root = TERMINAL, !.should_refresh = TRUE], "done", "none")

handle_command_blink(st) ==
  Out([st EXCEPT !.should_blink_led = ~st.should_blink_led], "done", "none")

handle_command_reload(st) == Out(st, "reload", "none")

handle_command_exit(st) == Out(st, "exit", "none")

show_bitmap(st, bitmap, palette) ==
  [st EXCEPT !.root = Group(bitmap, palette), !.should_refresh = TRUE]

preview_decoded(st, base64_payload, decoded) ==
  IF decoded.ok
  THEN Out(show_bitmap(st, decoded.bitmap, decoded.palette), "done", "none")
  ELSE Logged(st, Chars("Preview failed for: ") \o trunc(base64_payload)
                  \o Chars("'.\n%s"), "CodecError")

handle_command_preview_eager(st, base64_payload) ==
  preview_decoded([st EXCEPT !.should_refresh = TRUE], base64_payload,
                  decode_payload(base64_payload))

handle_command_preview(st, base64_payload) ==
  preview_decoded(st, base64_payload, decode_payload(base64_payload))

put(fs, file_name, bytes) ==
  [f \in (DOMAIN fs) \cup {file_name} |-> IF f = file_name THEN bytes ELSE fs[f]]

write_decoded(fs, raw_bytes, file_name) ==
  IF raw_bytes.ok
  THEN [ok |-> TRUE, fs |-> put(fs, file_name, raw_bytes.bytes)]
  ELSE [ok |-> FALSE, fs |-> put(fs, file_name, <<>>)]

write_b64_verbatim(fs, base64_str, file_name, writable) ==
  IF ~writable THEN [ok |-> FALSE, fs |-> fs]
  ELSE [ok |-> TRUE, fs |-> put(fs, file_name, utf8_encode(base64_str))]

\* open(file_name, "wb") empties the file before b64decode runs; it raises
\* when the file system is not writable.
write_b64_as_file(fs, base64_str, file_name, writable) ==
  IF ~writable THEN [ok |-> FALSE, fs |-> fs]
  ELSE write_decoded(fs, b64decode(base64_str), file_name)

read_file_as_b64(fs, file_name) ==
  IF file_name \notin DOMAIN fs THEN [ok |-> FALSE, text |-> <<>>]
  ELSE [ok |-> TRUE, text |-> utf8_decode(b64encode(fs[file_name])).text]

metadata_file(name) == name \o Chars(".metadata.base64")
payload_file(name)  == name \o Chars(".bin.gz.base64")

store_result(st, metadata, payload, written) ==
  IF written.ok
  THEN Out([st EXCEPT !.files = written.fs], "done", "none")
  ELSE Logged([st EXCEPT !.files = written.fs],
              Chars("Storing failed for: '") \o trunc(metadata) \o Chars("':'")
              \o trunc(payload) \o Chars("'.\n%s"), "StorageError")

\* The second write happens only when the first one returned.
store_payload(name, payload, writable, w1) ==
  IF w1.ok THEN write_b64_as_file(w1.fs, payload, payload_file(name), writable)
  ELSE w1

handle_store_command(st, name, metadata, payload, writable) ==
  store_result(st, metadata, payload,
     store_payload(name, payload, writable,
        write_b64_as_file(st.files, metadata, metadata_file(name), writable)))

show_decoded(st, meta_b64, payload_b64, decoded, error) ==
  IF decoded.ok
  THEN Out(show_bitmap(st, decoded.bitmap, decoded.palette), "done", "none")
  ELSE Logged(st, Chars("Showing failed for: '") \o trunc(meta_b64) \o Chars("':'")
                  \o trunc(payload_b64) \o Chars("'.\n%s"), error)

show_payload(st, meta, payload) ==
  IF payload.ok
  THEN show_decoded(st, meta.text, payload.text, decode_payload(payload.text),
                    "CodecError")
  ELSE show_decoded(st, meta.text, <<>>, NoImage, "StorageError")

show_meta(st, name, meta) ==
  IF meta.ok
  THEN show_payload(st, meta, read_file_as_b64(st.files, payload_file(name)))
  ELSE show_decoded(st, <<>>, <<>>, NoImage, "StorageError")

handle_show_command(st, name) ==
  show_meta(st, name, read_file_as_b64(st.files, metadata_file(name)))

-----------------------------------------------------------------------------
(* The dispatcher                                                          *)

in_commands_by_prefix(command_name) ==
  \E c \in COMMANDS : startswith(command_name, split(c, "-")[1])

in_commands(command_name) == command_name \in COMMANDS

\* handler names the handler that ran, "none" when none did.
Dispatched(out, handler, command_name) ==
  [st |-> out.st, outcome |-> out.outcome, error |-> out.error,
   handler |-> handler, name |-> command_name]

\* command_name.split("-")[1]: raises when the name holds no "-"
show_page(st, command_name, page) ==
  IF Len(page) < 2 THEN Out(st, "raised", "none")
  ELSE handle_show_command(st, page[2])

store_page(st, command_name, page, metadata, payload, writable) ==
  IF Len(page) < 2 THEN Out(st, "raised", "none")
  ELSE handle_store_command(st, page[2], metadata, payload, writable)

dispatch(st, command_raw, command_name, metadata, payload, writable) ==
  IF command_name = None
    THEN Dispatched(Out(st, "done",
                        IF command_raw = None THEN "none" ELSE "ProtocolDecodeError"),
                    "none", None)
  ELSE IF ~in_commands(command_name)
    THEN Dispatched(Out(st, "done", "UnknownCommandError"), "none", command_name)
  ELSE IF command_name = Chars("blink")
    THEN Dispatched(handle_command_blink(st), "blink", command_name)
  ELSE IF command_name = Chars("reload")
    THEN Dispatched(handle_command_reload(st), "reload", command_name)
  ELSE IF command_name = Chars("exit")
    THEN Dispatched(handle_command_exit(st), "exit", command_name)
  ELSE IF command_name = Chars("preview")
    THEN Dispatched(handle_command_preview(st, payload), "preview", command_name)
  ELSE IF command_name = Chars("terminal")
    THEN Dispatched(handle_terminal_command(st), "terminal", command_name)
  ELSE IF command_name = Chars("refresh")
    THEN Dispatched(handle_refresh_command(st), "refresh", command_name)
  ELSE IF startswith(command_name, Chars("show"))
    THEN Dispatched(show_page(st, command_name, split(command_name, "-")),
                    "show", command_name)
  ELSE IF startswith(command_name, Chars("store"))
    THEN Dispatched(store_page(st, command_name, split(command_name, "-"),
                               metadata, payload, writable),
                    "store", command_name)
  ELSE Dispatched(Out(st, "done", "none"), "none", command_name)

parsed_commands(st, command_raw, parsed, writable) ==
  IF parsed.raised
  THEN Dispatched(Out(st, "raised", "ProtocolDecodeError"), "none", None)
  ELSE dispatch(st, command_raw, parsed.value[1], parsed.value[2], parsed.value[3],
                writable)

\* handle_commands once read_command has returned command_raw
handle_commands(st, command_raw, writable) ==
  parsed_commands(st, command_raw, parse_command(command_raw), writable)

-----------------------------------------------------------------------------
(* The steps of the main loop                                              *)

\* The names bound at module level when the loop runs.
module_globals == {
  "READ_TIMEOUT", "LOOP_CYCLE", "KEEP_ALIVE", "REFRESH_RATE", "DEBUG",
  "MAX_OUTPUT_LEN", "COMMANDS", "COMMAND_NONE", "log", "dump", "led", "display",
  "trunc", "format_e", "iteration", "log_keep_alive", "should_refresh",
  "refresh_if_needed", "should_blink_led", "update_blinking", "read_command",
  "parse_command", "handle_commands", "handle_refresh_command",
  "handle_terminal_command", "handle_command_blink", "handle_command_reload",
  "handle_command_exit", "handle_command_preview", "handle_store_command",
  "handle_show_command", "show_bitmap", "write_b64_as_file", "read_file_as_b64",
  "decode_payload" }

\* Reading a name that is neither a local nor a global raises NameError.
name_error(local_names, name) == name \notin (local_names \cup module_globals)

refresh_every_tick(tick, due, hw_ok) ==
  IF due
  THEN IF hw_ok
       THEN [called |-> TRUE, raised |-> FALSE, should_refresh |-> FALSE]
       ELSE [called |-> TRUE, raised |-> TRUE, should_refresh |-> due]
  ELSE [called |-> FALSE, raised |-> FALSE, should_refresh |-> due]

\* refresh_if_needed in tick `tick` with should_refresh = due; hw_ok tells
\* whether display.refresh() returns.  The except block formats base64_string.
refresh_if_needed(tick, due, hw_ok) ==
  IF tick % refresh_cycle = 0 /\ due
  THEN IF hw_ok
       THEN [called |-> TRUE, raised |-> FALSE, should_refresh |-> FALSE]
       ELSE IF name_error({"refresh_cycle", "e"}, "base64_string")
            THEN [called |-> TRUE, raised |-> TRUE, should_refresh |-> due]
            ELSE [called |-> TRUE, raised |-> FALSE, should_refresh |-> FALSE]
  ELSE [called |-> FALSE, raised |-> FALSE, should_refresh |-> due]

update_blinking_sticky(blink, value) == IF blink THEN ~value ELSE value

update_blinking(blink, value) == IF blink THEN ~value ELSE FALSE

\* The number of lines the host sends in a run
MaxDelivered == 2

Globals == [should_refresh |-> should_refresh, should_blink_led |-> should_blink_led,
            root |-> root, files |-> files]

NoLast == [tick |-> -1, raw |-> None, name |-> None, handler |-> "none",
           outcome |-> "done", error |-> "none", led |-> FALSE,
           before |-> [should_refresh |-> FALSE, should_blink_led |-> FALSE,
                       root |-> TERMINAL, files |-> <<>>]]

NoProbe == [done |-> FALSE, value |-> <<>>]

\* time.sleep(LOOP_CYCLE)
Sleep ==
  /\ pc = "sleep"
  /\ pc' = "keep_alive"
  /\ UNCHANGED <<iteration, should_refresh, should_blink_led, led, root, files,
                 serial, host, horizon, arrived, refreshed, handled, last, probe_in, probe_out>>

\* The host sends one more line, ended by CR LF, while the loop sleeps.
Deliver(line) ==
  /\ pc = "sleep"
  /\ arrived < MaxDelivered
  /\ serial' = Append(serial, [id |-> arrived + 1, text |-> line \o <<"\r", "\n">>])
  /\ arrived' = arrived + 1
  /\ UNCHANGED <<pc, iteration, should_refresh, should_blink_led, led, root, files,
                 host, horizon, refreshed, handled, last, probe_in, probe_out>>

LogKeepAlive ==
  /\ pc = "keep_alive"
  /\ pc' = "blink"
  /\ UNCHANGED <<iteration, should_refresh, should_blink_led, led, root, files,
                 serial, host, horizon, arrived, refreshed, handled, last, probe_in, probe_out>>

UpdateBlinking ==
  /\ pc = "blink"
  /\ led' = update_blinking(should_blink_led, led)
  /\ pc' = "commands"
  /\ UNCHANGED <<iteration, should_refresh, should_blink_led, root, files,
                 serial, host, horizon, arrived, refreshed, handled, last, probe_in, probe_out>>

\* The command step once the line is read (got) and handled (res)
CommandsDone(got, res) ==
  /\ serial' = got.left
  /\ should_refresh' = res.st.should_refresh
  /\ should_blink_led' = res.st.should_blink_led
  /\ root' = res.st.root
  /\ files' = res.st.files
  /\ pc' = CASE res.outcome = "done"   -> "refresh"
             [] res.outcome = "raised" -> "crashed"
             [] res.outcome = "reload" -> "reloaded"
             [] res.outcome = "exit"   -> "exited"
  /\ last' = [tick |-> iteration, raw |-> got.line, name |-> res.name,
              handler |-> res.handler, outcome |-> res.outcome,
              error |-> res.error, led |-> led, before |-> Globals]
  /\ handled' = IF res.handler = "none" THEN handled
                ELSE Append(handled,
                       [tick |-> iteration, handler |-> res.handler,
                        name |-> res.name, raw |-> got.line,
                        first |-> got.read[1].id,
                        newest |-> got.read[Len(got.read)].id,
                        error |-> res.error, before |-> Globals,
                        after |-> res.st])

CommandsRead(got, writable) ==
  CommandsDone(got, handle_commands(Globals, got.line, writable))

HandleCommands ==
  /\ pc = "commands"
  /\ \E connected \in BOOLEAN, writable \in BOOLEAN :
       CommandsRead(read_command(connected, serial), writable)
  /\ UNCHANGED <<iteration, led, host, horizon, arrived, refreshed, probe_in, probe_out>>

\* The refresh step once refresh_if_needed has run; hw_ok tells whether
\* display.refresh() returned.
RefreshDone(r, hw_ok) ==
  /\ should_refresh' = r.should_refresh
  /\ refreshed' = IF r.called
                  THEN Append(refreshed, [tick |-> iteration, due |-> should_refresh,
                                          ok |-> hw_ok, root |-> root])
                  ELSE refreshed
  /\ pc' = IF r.raised THEN "crashed" ELSE "incr"

RefreshIfNeeded ==
  /\ pc = "refresh"
  /\ \E hw_ok \in BOOLEAN : RefreshDone(refresh_if_needed(iteration, should_refresh, hw_ok), hw_ok)
  /\ UNCHANGED <<iteration, should_blink_led, led, root, files, serial, host,
                 horizon, arrived, handled, last, probe_in, probe_out>>

Increment ==
  /\ pc = "incr"
  /\ iteration < horizon
  /\ iteration' = iteration + 1
  /\ pc' = "sleep"
  /\ last' = NoLast
  /\ UNCHANGED <<should_refresh, should_blink_led, led, root, files, serial, host,
                 horizon, arrived, refreshed, handled, probe_in, probe_out>>

InitWith(lines, ticks) ==
  /\ pc = "sleep"
  /\ iteration = 0
  /\ should_refresh = TRUE
  /\ should_blink_led = FALSE
  /\ led = FALSE
  /\ root = TERMINAL
  /\ files = <<>>
  /\ serial = <<>>
  /\ host = lines
  /\ horizon = ticks
  /\ arrived = 0
  /\ refreshed = <<>>
  /\ handled = <<>>
  /\ last = NoLast
  /\ probe_in = <<>>
  /\ probe_out = NoProbe

Next ==
  \/ Sleep
  \/ \E line \in host : Deliver(line)
  \/ LogKeepAlive
  \/ UpdateBlinking
  \/ HandleCommands
  \/ RefreshIfNeeded
  \/ Increment

-----------------------------------------------------------------------------
(* The host side: how the companion app frames commands and packs images   *)

\* zlib framing of data as one stored block (what zlib.compress(data, 0) gives)
zlib_store(data) ==
  LET n   == Len(data)
      sum == adler32(data)
  IN <<120, 1>>
     \o <<1, n % 256, n \div 256, 255 - (n % 256), 255 - (n \div 256)>>
     \o data
     \o <<sum \div 16777216, (sum \div 65536) % 256, (sum \div 256) % 256, sum % 256>>

b64text(bytes) == utf8_decode(b64encode(bytes)).text

encode_payload(data) == b64text(zlib_store(data))

\* base64(name:metadata:payload)
transport_encode(triple) ==
  b64text(utf8_encode(triple[1] \o <<":">> \o triple[2] \o <<":">> \o triple[3]))

debug_line(name, metadata, payload) ==
  Chars("debug:") \o name \o <<":">> \o metadata \o <<":">> \o payload

\* The number of bytes of a full frame
BufferSize == (display_width * display_height) \div 8

\* Frame buffers of n bytes: all black, all white, and mixed patterns
SampleBuffer(n, seed) ==
  [i \in 1..n |-> IF seed = 0 THEN 0
                  ELSE IF seed = 1 THEN 255
                  ELSE (seed * 89 + i * (37 + 2 * seed)) % 256]

GoodPayload    == encode_payload(SampleBuffer(BufferSize, 2))
OtherPayload   == encode_payload(SampleBuffer(BufferSize, 3))
GarbagePayload == Chars("QUJD")
SomeMetadata   == Chars("bmFtZT1NaWtl")

Slots == {Chars("a"), Chars("b"), Chars("c"), Chars("up"), Chars("down")}

\* The scheduler runs: past the second refresh boundary, with the commands
\* that mark a refresh due, in both transport forms, and those that end the loop.
MaxTick == 10

SchedulerLines == {
  debug_line(Chars("refresh"), <<>>, <<>>),
  transport_encode(<<Chars("refresh"), <<>>, <<>>>>),
  debug_line(Chars("terminal"), <<>>, <<>>),
  debug_line(Chars("blink"), <<>>, <<>>),
  debug_line(Chars("preview"), <<>>, GoodPayload),
  debug_line(Chars("exit"), <<>>, <<>>) }

Init == InitWith(SchedulerLines, MaxTick)

Spec == Init /\ [][Next]_vars

\* The dispatcher runs: lines that are no command, lines that name no
\* command of the vocabulary, and two commands that change what they could
\* disturb.
MaxDispatchTick == 1

\* Lines in neither form, as read_command returns them
MalformedLines == {
  Chars("100%"),
  Chars("!!!!"),
  Chars("QUJD"),
  b64text(utf8_encode(Chars("blink:"))),
  b64text(utf8_encode(Chars("blink:a:b:c"))),
  b64text(<<255, 58, 58>>),
  Chars("debug:blink"),
  Chars("debug:blink:a:b:c") }

UnknownNames == {
  Chars("show"), Chars("store"), Chars("show-x"), Chars("store-"),
  Chars("Blink"), <<>> }

UnknownLines ==
  {debug_line(name, SomeMetadata, GarbagePayload) : name \in UnknownNames}
  \cup {transport_encode(<<name, <<>>, <<>>>>) : name \in UnknownNames}

DispatchLines ==
  MalformedLines \cup UnknownLines
  \cup {debug_line(Chars("blink"), <<>>, <<>>),
        debug_line(Chars("preview"), <<>>, GoodPayload)}

InitDispatch == InitWith(DispatchLines, MaxDispatchTick)

SpecDispatch == InitDispatch /\ [][Next]_vars

\* The store and show commands run, on every slot
MaxStoreTick == 1

StoreLines ==
  {debug_line(Chars("store-") \o slot, SomeMetadata, GoodPayload) : slot \in Slots}
  \cup {debug_line(Chars("show-") \o slot, <<>>, <<>>) : slot \in Slots}
  \cup {debug_line(Chars("store-a"), SomeMetadata, OtherPayload),
        debug_line(Chars("store-b"), SomeMetadata, GarbagePayload),
        transport_encode(<<Chars("show-up"), <<>>, <<>>>>)}

InitStore == InitWith(StoreLines, MaxStoreTick)

SpecStore == InitStore /\ [][Next]_vars

-----------------------------------------------------------------------------
(* The functions on their own: an input is drawn, the function is applied  *)

\* Everything but the input, the files and should_refresh, at its value
\* before the loop starts
ProbeRest ==
  /\ pc = "probe"
  /\ iteration = 0
  /\ should_blink_led = FALSE
  /\ led = FALSE
  /\ root = TERMINAL
  /\ serial = <<>>
  /\ host = {}
  /\ horizon = 0
  /\ arrived = 0
  /\ refreshed = <<>>
  /\ handled = <<>>
  /\ last = NoLast
  /\ probe_out = NoProbe

ProbeDone(value) ==
  /\ ~probe_out.done
  /\ probe_out' = [done |-> TRUE, value |-> value]
  /\ UNCHANGED <<pc, iteration, should_refresh, should_blink_led, led, root, files,
                 serial, host, horizon, arrived, refreshed, handled, last, probe_in>>

\* trunc on the pieces of a text of distinct characters, empty to MaxTruncLen
\* characters long
MaxTruncLen == 14

TruncAlphabet == Chars("abcdefghijklmnopqrstuvwxyz")

TruncInputs ==
  {SubSeq(TruncAlphabet, i, j) : i \in 1..MaxTruncLen, j \in 0..MaxTruncLen}

ApplyTrunc == ProbeDone(trunc(probe_in))

InitTrunc ==
  /\ probe_in \in TruncInputs
  /\ files = <<>>
  /\ should_refresh = TRUE
  /\ ProbeRest

SpecTrunc == InitTrunc /\ [][ApplyTrunc]_vars

\* parse_command on the transport form of a triple
ParseComponents == {
  <<>>, Chars("a"), Chars("show-a"), Chars(" a"), Chars("b "), Chars("a:b"),
  <<CodePoint(233)>>,
  <<":">> }

ParseInputs == {<<n, m, p>> : n \in ParseComponents, m \in ParseComponents,
                              p \in ParseComponents}

ApplyParse == ProbeDone(parse_command(transport_encode(probe_in)))

InitParse ==
  /\ probe_in \in ParseInputs
  /\ files = <<>>
  /\ should_refresh = TRUE
  /\ ProbeRest

SpecParse == InitParse /\ [][ApplyParse]_vars

\* parse_command on lines that start with the debug marker: two or three
\* parts joined by ":", some of them ending in the text of the marker
DebugParts == {<<>>, Chars("a"), Chars(" y "), Chars("xdebug"), Chars("debug"),
               Chars("preview")}

DebugLines ==
  {Chars("debug:") \o a \o <<":">> \o b : a \in DebugParts, b \in DebugParts}
  \cup {debug_line(a, b, c) : a \in DebugParts, b \in DebugParts, c \in DebugParts}
  \cup {Chars("debug:preview::debug:")}

ApplyParseLine == ProbeDone(parse_command(probe_in))

InitDebug ==
  /\ probe_in \in DebugLines
  /\ files = <<>>
  /\ should_refresh = TRUE
  /\ ProbeRest

SpecDebug == InitDebug /\ [][ApplyParseLine]_vars

\* The image codec on frame buffers of every length up to a full frame and
\* one byte more: decode_payload on its own, and behind the preview and the
\* show command.
\* The show command finds the buffer stored in slot a.
MaxSeed == 7

CodecInputs ==
  {SampleBuffer(n, seed) : n \in 0..(BufferSize + 1), seed \in 0..MaxSeed}

StoredInSlot(name, data) ==
  put(put(<<>>, metadata_file(name), <<>>), payload_file(name), zlib_store(data))

ApplyDecode == ProbeDone(decode_payload(encode_payload(probe_in)))

CodecShown(res) ==
  /\ pc' = "shown"
  /\ should_refresh' = res.st.should_refresh
  /\ root' = res.st.root
  /\ last' = [tick |-> iteration, raw |-> None, name |-> res.name,
              handler |-> res.handler, outcome |-> res.outcome,
              error |-> res.error, led |-> led, before |-> Globals]
  /\ UNCHANGED <<iteration, should_blink_led, led, files, serial, host, horizon,
                 arrived, refreshed, handled, probe_in, probe_out>>

ApplyPreview ==
  /\ pc = "probe"
  /\ CodecShown(Dispatched(handle_command_preview(Globals, encode_payload(probe_in)),
                           "preview", Chars("preview")))

ApplyShow ==
  /\ pc = "probe"
  /\ CodecShown(Dispatched(handle_show_command(Globals, Chars("a")),
                           "show", Chars("show-a")))

InitCodec ==
  /\ probe_in \in CodecInputs
  /\ files = StoredInSlot(Chars("a"), probe_in)
  /\ should_refresh \in BOOLEAN
  /\ ProbeRest

NextCodec == ApplyDecode \/ ApplyPreview \/ ApplyShow

SpecCodec == InitCodec /\ [][NextCodec]_vars

\* The preview, store and show commands on one slot, with payloads and
\* metadata that fail at each step, and with the slot empty, half written
\* or holding an image stored before.
ShortPayload      == encode_payload(SampleBuffer(BufferSize - 1, 2))
BadBase64         == Chars("A")
BadChecksumBytes  == [zlib_store(SampleBuffer(BufferSize, 2))
                        EXCEPT ![Len(zlib_store(SampleBuffer(BufferSize, 2)))] =
                          (@ + 1) % 256]
BadChecksumPayload == b64text(BadChecksumBytes)

SlotPayloads == {GoodPayload, GarbagePayload, BadBase64, ShortPayload,
                 BadChecksumPayload, <<>>}

SlotMetadata == {SomeMetadata, BadBase64}

NoGlobals == [should_refresh |-> FALSE, should_blink_led |-> FALSE,
              root |-> TERMINAL, files |-> <<>>]

\* The files the slot holds after an image was stored in it
StoredBefore(name) ==
  handle_store_command(NoGlobals, name, SomeMetadata, OtherPayload, TRUE).st.files

SlotFiles == {
  <<>>,
  put(<<>>, metadata_file(Chars("a")), b64decode(SomeMetadata).bytes),
  StoredBefore(Chars("a")) }

\* A command step of the slot runs: the handler has run, the history is kept
SlotDone(res, position) ==
  /\ pc' = position
  /\ should_refresh' = res.st.should_refresh
  /\ root' = res.st.root
  /\ files' = res.st.files
  /\ last' = [tick |-> iteration, raw |-> None, name |-> res.name,
              handler |-> res.handler, outcome |-> res.outcome,
              error |-> res.error, led |-> led, before |-> Globals]
  /\ handled' = Append(handled,
                  [tick |-> iteration, handler |-> res.handler, name |-> res.name,
                   raw |-> None, first |-> 0, newest |-> 0, error |-> res.error,
                   before |-> Globals, after |-> res.st])
  /\ UNCHANGED <<iteration, should_blink_led, led, serial, host, horizon, arrived,
                 refreshed, probe_in, probe_out>>

SlotPreview ==
  /\ pc = "probe"
  /\ SlotDone(Dispatched(handle_command_preview(Globals, probe_in[2]),
                         "preview", Chars("preview")), "shown")

SlotStore ==
  /\ pc = "probe"
  /\ \E writable \in BOOLEAN :
       SlotDone(Dispatched(handle_store_command(Globals, Chars("a"), probe_in[1],
                                                probe_in[2], writable),
                           "store", Chars("store-a")), "stored")

SlotShow ==
  /\ pc \in {"probe", "stored"}
  /\ SlotDone(Dispatched(handle_show_command(Globals, Chars("a")),
                         "show", Chars("show-a")), "shown")

InitSlot ==
  /\ probe_in \in SlotMetadata \X SlotPayloads
  /\ files \in SlotFiles
  /\ should_refresh \in BOOLEAN
  /\ ProbeRest

NextSlot == SlotPreview \/ SlotStore \/ SlotShow

SpecSlot == InitSlot /\ [][NextSlot]_vars

-----------------------------------------------------------------------------
(* Properties of the scheduler loop                                        *)

\* The refresh commands handled in the ticks lo..hi
RefreshCommands(lo, hi) ==
  {i \in DOMAIN handled : handled[i].handler = "refresh"
                          /\ handled[i].tick >= lo /\ handled[i].tick <= hi}

\* The calls of display.refresh() made in tick t
RefreshesIn(t) == {i \in DOMAIN refreshed : refreshed[i].tick = t}

\* The refresh step of tick t has run and returned
RefreshStepDone(t) == iteration > t \/ (iteration = t /\ pc = "incr")

\* The cadence boundaries after tick 0
Boundaries == {t \in 1..MaxTick : t % refresh_cycle = 0}

\* C1: an error of a listed kind never aborts the loop: no step of a tick
\* lets an exception escape, so the loop stops only by reload or exit.
C1_ErrorsNeverAbortLoop == pc # "crashed"

\* C2: display.refresh() is called only in a tick with
\* tick % refresh_cycle = 0 and only with should_refresh set; two calls are at
\* least refresh_cycle ticks apart; and when refresh commands were handled
\* in the ticks since the boundary before, however many, the refresh step at
\* the boundary calls it exactly once.
C2_RefreshCadence ==
  /\ \A i \in DOMAIN refreshed :
       refreshed[i].tick % refresh_cycle = 0 /\ refreshed[i].due
  /\ \A i, j \in DOMAIN refreshed :
       i < j => refreshed[j].tick - refreshed[i].tick >= refresh_cycle
  /\ \A b \in Boundaries :
       RefreshStepDone(b) /\ RefreshCommands(b - refresh_cycle + 1, b) # {}
         => Cardinality(RefreshesIn(b)) = 1

\* Two refresh commands were handled inside one window and the boundary
\* that ends it has refreshed.
C2_TwoCommandsOneRefresh ==
  \E b \in Boundaries :
    /\ RefreshStepDone(b)
    /\ Cardinality(RefreshCommands(b - refresh_cycle + 1, b)) = 2
    /\ Cardinality(RefreshesIn(b)) = 1

\* C10: a tick invokes at most one handler; what the handler did is in place
\* when that tick's refresh step starts; and handlers are invoked in the
\* order in which their lines arrived.
C10_OneHandlerPerTickInOrder ==
  /\ \A i, j \in DOMAIN handled :
       i < j => /\ handled[i].tick < handled[j].tick
                /\ handled[i].newest < handled[j].first
  /\ \A i \in DOMAIN handled : handled[i].first <= handled[i].newest
  /\ \A i \in DOMAIN handled : handled[i].tick <= iteration
  /\ pc = "refresh" /\ handled # <<>> /\ handled[Len(handled)].tick = iteration
       => Globals = handled[Len(handled)].after

\* Two lines that arrived one after the other were handled in two ticks.
C10_TwoHandlersInOrder ==
  /\ Len(handled) = 2
  /\ handled[1].newest = 1
  /\ handled[2].first = 2
  /\ handled[1].tick < handled[2].tick
  /\ pc = "refresh"
  /\ handled[2].tick = iteration

\* The loop has stopped
Stopped == pc \in {"reloaded", "exited", "crashed"}

\* C12: once reload or exit is dispatched no later step happens, and
\* nothing but a reload or an exit command stops the loop.
C12_OnlyReloadExitStop ==
  /\ pc \in {"reloaded", "exited"} => ~ENABLED Next
  /\ Stopped => last.tick = iteration /\ last.handler \in {"reload", "exit"}

\* The commands handled in the ticks lo..hi that mark a refresh due
MarkedDue(lo, hi) ==
  {k \in DOMAIN handled :
     /\ handled[k].tick >= lo /\ handled[k].tick <= hi
     /\ handled[k].handler \in {"refresh", "terminal", "preview", "show"}
     /\ handled[k].after.should_refresh}

\* C13: a call of display.refresh() that fails is caught: the loop goes on,
\* should_refresh is false after that refresh step, and a later call comes
\* only after a command has marked a refresh due again.
C13_FailedRefreshClearsDue ==
  \A i \in DOMAIN refreshed :
    ~refreshed[i].ok =>
      /\ pc # "crashed"
      /\ refreshed[i].tick = iteration /\ pc = "incr" => ~should_refresh
      /\ \A j \in DOMAIN refreshed :
           j > i => MarkedDue(refreshed[i].tick + 1, refreshed[j].tick) # {}

\* C14: while a refresh is due the loop goes on, unless reload or exit stops
\* it, and the refresh step of the next tick divisible by refresh_cycle
\* refreshes the display and leaves should_refresh false.
C14_DueRefreshedAtBoundary ==
  /\ should_refresh => pc # "crashed"
  /\ iteration % refresh_cycle = 0 /\ pc = "incr" =>
       /\ ~should_refresh
       /\ \A i \in DOMAIN refreshed : refreshed[i].tick = iteration => refreshed[i].ok

\* C15: the LED changes only in the blink step, where it is inverted when
\* should_blink_led is set and switched off when it is not; the blink
\* command flips should_blink_led and nothing else.
C15_LedFollowsBlinkStep ==
  [][/\ led' # led => pc = "blink"
     /\ pc = "blink" /\ pc' = "commands" =>
          led' = (IF should_blink_led THEN ~led ELSE FALSE)
     /\ pc = "commands" /\ pc' = "refresh" /\ last'.handler = "blink" =>
          /\ should_blink_led' = ~should_blink_led
          /\ led' = led
          /\ <<should_refresh, root, files>>' = <<should_refresh, root, files>>
     /\ should_blink_led' # should_blink_led =>
          pc = "commands" /\ last'.handler = "blink"]_vars

\* Blinking was switched off in a tick in which the LED was on, and the
\* blink step of the next tick has switched the LED off.
C15_SwitchedOffNextTick ==
  /\ Len(handled) = 2
  /\ handled[1].handler = "blink"
  /\ handled[2].handler = "blink"
  /\ handled[2].tick = handled[1].tick + 1
  /\ handled[2].tick = iteration - 1
  /\ pc = "commands"
  /\ ~should_blink_led
  /\ ~led

\* C19: every line delivered and read has been decoded on its own and
\* dispatched to its handler exactly once, in whatever number the lines
\* were buffered.
C19_EveryLineDispatchedOnce ==
  /\ Len(handled) = arrived - Len(serial)
  /\ \A i \in DOMAIN handled : handled[i].first = i /\ handled[i].newest = i

\* The root put on the display by the last call of display.refresh()
RefreshedRoot ==
  IF refreshed = <<>> THEN [kind |-> "none"] ELSE refreshed[Len(refreshed)].root

\* C20: when the display root is not the one last refreshed,
\* should_refresh is set; a step that replaces the root sets should_refresh,
\* and only the refresh step of a tick divisible by refresh_cycle clears it.
C20_ChangedRootIsDue ==
  /\ [](root # RefreshedRoot => should_refresh)
  /\ [][/\ root' # root => should_refresh'
        /\ should_refresh /\ ~should_refresh' =>
             pc = "refresh" /\ iteration % refresh_cycle = 0]_vars

\* A bitmap was refreshed onto the display and the terminal was shown after
\* it: the root differs from the one refreshed and a refresh is due.
C20_TerminalAfterBitmap ==
  /\ refreshed # <<>>
  /\ RefreshedRoot.kind = "group"
  /\ root = TERMINAL
  /\ should_refresh
  /\ pc = "sleep"

-----------------------------------------------------------------------------
(* Properties of trunc and of the transport form                           *)

\* C9 as stated: a text of at most MAX_OUTPUT_LEN characters is returned
\* unchanged; a longer one becomes its first k characters, "...", and its
\* last k characters, for one k.
C9_SameKBothSides ==
  probe_out.done =>
    IF Len(probe_in) <= MAX_OUTPUT_LEN THEN probe_out.value = probe_in
    ELSE \E k \in 0..Len(probe_in) :
           probe_out.value = SubSeq(probe_in, 1, k) \o Chars("...")
                             \o SubSeq(probe_in, Len(probe_in) - k + 1, Len(probe_in))

\* C9: a text of at most MAX_OUTPUT_LEN characters is returned unchanged;
\* a longer one becomes its first 4 characters, "...", and its last 3
\* characters, 10 characters whatever its length.
C9_FirstFourLastThree ==
  probe_out.done =>
    IF Len(probe_in) <= MAX_OUTPUT_LEN THEN probe_out.value = probe_in
    ELSE /\ probe_out.value = SubSeq(probe_in, 1, 4) \o Chars("...")
                              \o SubSeq(probe_in, Len(probe_in) - 2, Len(probe_in))
         /\ Len(probe_out.value) = 10

\* A text of 12 characters has been truncated.
C9_LongTextTruncated ==
  /\ probe_out.done
  /\ probe_in = Chars("bcdefghijklm")
  /\ probe_out.value = Chars("bcde...klm")

HasColon(text) == \E i \in DOMAIN text : text[i] = ":"

\* C3 as stated: parse_command of base64(name:metadata:payload) returns
\* [name, metadata, payload] for every triple.
C3_RoundTripEveryTriple ==
  probe_out.done => probe_out.value = [raised |-> FALSE, value |-> probe_in]

\* C3: parse_command of base64(name:metadata:payload) returns
\* [name, metadata, payload], white space kept, when no component holds a
\* ":"; when one does it returns [None, None, None] and does not raise.
C3_RoundTripWithoutColon ==
  probe_out.done =>
    IF \E k \in 1..3 : HasColon(probe_in[k])
    THEN probe_out.value = [raised |-> FALSE, value |-> COMMAND_NONE]
    ELSE probe_out.value = [raised |-> FALSE, value |-> probe_in]

\* A triple with white space at the ends of its components came back as sent.
C3_WhitespaceKept ==
  /\ probe_out.done
  /\ probe_in = <<Chars(" a"), Chars("b "), Chars("show-a")>>
  /\ probe_out.value.value = probe_in

\* The parts of a debug line after its leading marker
AfterMarker(line) == split(SubSeq(line, Len("debug:") + 1, Len(line)), ":")

\* C16: of a line that starts with "debug:" parse_command removes that
\* leading marker only, splits the rest on ":" and returns the three parts,
\* trimmed, when there are exactly three, and [None, None, None] otherwise.
C16_OnlyLeadingMarkerRemoved ==
  probe_out.done =>
    probe_out.value =
      IF Len(AfterMarker(probe_in)) = 3
      THEN [raised |-> FALSE,
            value |-> [k \in 1..3 |-> strip(AfterMarker(probe_in)[k])]]
      ELSE [raised |-> FALSE, value |-> COMMAND_NONE]

-----------------------------------------------------------------------------
(* Properties of the image codec                                           *)

\* Bit k (0 the least significant) of a byte
BitOf(byte, k) == (byte \div 2^k) % 2

\* A grid packed row by row, eight pixels to a byte, the leftmost pixel in
\* the most significant bit
Pack(grid) ==
  [i \in 1..BufferSize |->
     LET y  == (i - 1) \div (display_width \div 8)
         x0 == 8 * ((i - 1) % (display_width \div 8))
     IN sum_of([k \in 1..8 |-> grid[<<x0 + k - 1, y>>] * 2^(8 - k)])]

\* C6: of a buffer of exactly width * height / 8 bytes decode_payload makes
\* pixel (x, y) bit 7 - x mod 8 of byte y * (width div 8) + x div 8, so
\* packing the decoded grid gives the buffer back.
C6_BitLayout ==
  probe_out.done /\ Len(probe_in) = BufferSize =>
    /\ probe_out.value.ok
    /\ DOMAIN probe_out.value.bitmap = Pixels
    /\ \A x \in 0..(display_width - 1), y \in 0..(display_height - 1) :
         probe_out.value.bitmap[<<x, y>>]
           = BitOf(probe_in[y * (display_width \div 8) + (x \div 8) + 1], 7 - (x % 8))
    /\ Pack(probe_out.value.bitmap) = probe_in

\* A full frame with a mixed pattern has been decoded.
C6_MixedFrameDecoded ==
  /\ probe_out.done
  /\ probe_in = SampleBuffer(BufferSize, 2)
  /\ probe_out.value.ok
  /\ \E p, q \in Pixels : probe_out.value.bitmap[p] # probe_out.value.bitmap[q]

\* C7: of a buffer shorter than width * height / 8 bytes decode_payload
\* fails, with no pixel made up; preview and show report a codec failure
\* and leave the display root and should_refresh as they were.
C7_ShortBufferFails ==
  Len(probe_in) < BufferSize =>
    /\ probe_out.done => ~probe_out.value.ok /\ probe_out.value.bitmap = NoBitmap
    /\ pc = "shown" =>
         /\ last.error = "CodecError"
         /\ root = last.before.root
         /\ root = TERMINAL
         /\ should_refresh = last.before.should_refresh

\* A buffer one byte short went through decode_payload and the preview
\* command, with no refresh due before.
C7_OneByteShortPreviewed ==
  /\ Len(probe_in) = BufferSize - 1
  /\ probe_out.done
  /\ pc = "shown"
  /\ last.handler = "preview"
  /\ ~last.before.should_refresh

-----------------------------------------------------------------------------
(* Properties of the decoder, the dispatcher and the slots                 *)

\* The command step of this tick has run
CommandStepDone == last.tick = iteration

\* C4: for a line in neither form, and when there is no line, parse_command
\* returns [None, None, None] and does not raise, no handler runs and
\* nothing changes.
C4_MalformedLineIsNoCommand ==
  CommandStepDone /\ (last.raw = None \/ last.raw \in MalformedLines) =>
    /\ last.outcome = "done"
    /\ last.name = None
    /\ last.handler = "none"
    /\ pc = "refresh" => Globals = last.before /\ led = last.led

\* C5: for a name outside the vocabulary no handler runs, and
\* should_blink_led, should_refresh, the display root, the LED and the files
\* stay as they were.
C5_UnknownNameIsNoOp ==
  CommandStepDone /\ last.name # None /\ last.name \notin COMMANDS =>
    /\ last.outcome = "done"
    /\ last.handler = "none"
    /\ pc = "refresh" => Globals = last.before /\ led = last.led

\* The name show-x came in after blinking and a preview had changed the
\* state: blinking on, a bitmap on the display.
C5_NearMissAfterChanges ==
  /\ CommandStepDone
  /\ pc = "refresh"
  /\ last.name = Chars("show-x")
  /\ last.error = "UnknownCommandError"
  /\ should_blink_led \/ root # TERMINAL

\* The stores to the slot of handled[j], a show, among the entries before j
StoresBefore(j) ==
  {i \in 1..(j - 1) :
     /\ handled[i].handler = "store"
     /\ SubSeq(handled[i].name, 7, Len(handled[i].name))
          = SubSeq(handled[j].name, 6, Len(handled[j].name))}

\* What the preview command would do in the state before handled[j] with
\* the payload stored by handled[i]
PreviewOf(i, j) ==
  handle_command_preview(handled[j].before, parse_command(handled[i].raw).value[3]).st

\* C8 as stated: a show of a slot after a store to it that succeeded puts on
\* the display the bitmap a preview of the stored payload would show, and
\* marks a refresh due.
C8_ShowMarksRefreshDue ==
  \A j \in DOMAIN handled :
    handled[j].handler = "show" /\ StoresBefore(j) # {}
      /\ handled[Max(StoresBefore(j))].error = "none"
    => /\ handled[j].after.root = PreviewOf(Max(StoresBefore(j)), j).root
       /\ handled[j].after.should_refresh

\* C8: a show of a slot after a store to it that succeeded leaves the
\* display root and should_refresh as a preview of the stored payload would:
\* the payload's bitmap shown and a refresh due when the payload decodes,
\* both as they were when it does not.
C8_ShowAsPreview ==
  \A j \in DOMAIN handled :
    handled[j].handler = "show" /\ StoresBefore(j) # {}
      /\ handled[Max(StoresBefore(j))].error = "none"
    => /\ handled[j].after.root = PreviewOf(Max(StoresBefore(j)), j).root
       /\ handled[j].after.should_refresh
            = PreviewOf(Max(StoresBefore(j)), j).should_refresh
       /\ handled[j].after.root # handled[j].before.root
            => handled[j].after.should_refresh

\* A payload stored in a slot was put on the display by a show when no
\* refresh was due.
C8_StoredBitmapShown ==
  /\ Len(handled) = 2
  /\ handled[1].handler = "store"
  /\ handled[1].error = "none"
  /\ handled[2].handler = "show"
  /\ StoresBefore(2) = {1}
  /\ ~handled[2].before.should_refresh
  /\ handled[2].after.root.kind = "group"
  /\ handled[2].after.root = root

\* C17: decode_payload succeeds only on a buffer of exactly
\* width * height / 8 bytes; a buffer of any other length, a longer one too,
\* is a decode failure, and no bitmap is shown.
C17_OnlyExactLengthDecodes ==
  Len(probe_in) # BufferSize =>
    /\ probe_out.done => ~probe_out.value.ok
    /\ pc = "shown" => root = last.before.root

-----------------------------------------------------------------------------
(* Properties of the commands on one slot                                  *)

\* C11: a preview or a show that fails leaves the display root and
\* should_refresh as they were; the root is replaced, by the decoded bitmap,
\* and should_refresh set only when the whole decode succeeded.
C11_FailureLeavesDisplay ==
  \A i \in DOMAIN handled :
    handled[i].handler \in {"preview", "show"} =>
      IF handled[i].error = "none"
      THEN /\ handled[i].after.root.kind = "group"
           /\ handled[i].after.root.bitmap \in [Pixels -> {0, 1}]
           /\ handled[i].after.should_refresh
      ELSE /\ handled[i].after.root = handled[i].before.root
           /\ handled[i].after.should_refresh = handled[i].before.should_refresh

\* A preview of a payload that is no base64 failed with no refresh due.
C11_BadPreviewHandled ==
  /\ Len(handled) = 1
  /\ handled[1].handler = "preview"
  /\ probe_in[2] = BadBase64
  /\ handled[1].error = "CodecError"
  /\ ~handled[1].before.should_refresh
  /\ root = TERMINAL

\* The file of the slot a store writes first, and the one it writes second
SlotMetadataFile == metadata_file(Chars("a"))
SlotPayloadFile  == payload_file(Chars("a"))

\* File f holds in fs what it held in old
SameFile(f, fs, old) ==
  IF f \in DOMAIN old THEN f \in DOMAIN fs /\ fs[f] = old[f] ELSE f \notin DOMAIN fs

\* C18: a store whose metadata or payload is no valid base64 leaves every
\* file it did not write completely as it was: with bad metadata both files
\* of the slot, with bad payload the payload file; and a show of the slot
\* displays after it what it would have displayed before.
C18_FailedStoreKeepsSlot ==
  \A i \in DOMAIN handled :
    handled[i].handler = "store"
      /\ (~b64decode(probe_in[1]).ok \/ ~b64decode(probe_in[2]).ok)
    => /\ ~b64decode(probe_in[1]).ok =>
            SameFile(SlotMetadataFile, handled[i].after.files, handled[i].before.files)
       /\ SameFile(SlotPayloadFile, handled[i].after.files, handled[i].before.files)
       /\ handle_show_command(handled[i].after, Chars("a")).st.root
            = handle_show_command(handled[i].before, Chars("a")).st.root

=============================================================================
